---- MODULE Spec2Model ----
(***************************************************************************)
(* Token authentication and revocation of watchlist-backend:               *)
(*   application/security/jwt.rs, auth.rs, roles.rs                        *)
(*   application/service/token_service.rs                                  *)
(*   api/extractors.rs, api/handlers/auth_handlers.rs                      *)
(* Time is whole seconds (chrono::Utc::now().timestamp()).  The Redis      *)
(* connection is state.redis; every Redis call may fail.                   *)
(***************************************************************************)
EXTENDS Integers, FiniteSets, Sequences, TLC

VARIABLES now, config, redis, issued, nextId, logins, revokedIds, last,
          pc, holders, redeemed

\* the calls in flight, the holders of the connection mutex and the history
\* of redeemed refresh tokens
conc == <<pc, holders, redeemed>>

vars == <<now, config, redis, issued, nextId, logins, revokedIds, last, conc>>

(***************************** bounds **************************************)
\* the clock starts here and ticks MaxTicks times at most
StartTime == 8
MaxTicks == 3
\* jwt_validation_leeway_seconds ranges over 0..MaxLeeway
MaxLeeway == 1
\* jwt_expire_access_token_seconds / jwt_expire_refresh_token_seconds
AccessTtl == 1
RefreshTtl == 2
\* number of issuance calls (login or refresh) in one behaviour
MaxPairs == 2
\* number of successful logins in one behaviour
MaxLogins == 1
\* the typ field (u8) ranges over 0..MaxTyp
MaxTyp == 2
\* number of comma-separated entries of a users.roles string
MaxRoles == 2
\* number of cutoffs (global, per user) present in Redis in one behaviour
MaxCutoffs == 1

(***************************** constants ***********************************)
USER_ROLE_ADMIN == <<"a", "d", "m", "i", "n">>

\* JwtTokenType as u8
AccessToken == 0
RefreshToken == 1

\* subjects (users.id), and users.roles of each row
Users == {"u1", "u2"}
UserRoles(u) ==
    IF u = "u1" THEN USER_ROLE_ADMIN
    ELSE <<"g", "u", "e", "s", "t", ",", "c", "u", "s", "t", "o", "m", "e", "r">>

\* the secret of config.jwt_keys, and any other secret
ServerSecret == "server"
OtherSecret == "other"

Times == StartTime .. (StartTime + MaxTicks)

(************************ strings stored in Redis **************************)
\* usize -> decimal string (redis ToRedisArgs), a sequence of digits
RECURSIVE Format(_)
Format(n) == IF n < 10 THEN <<n>> ELSE Format(n \div 10) \o <<n % 10>>

ParseError == -1

RECURSIVE ParseDigits(_, _)
ParseDigits(s, acc) ==
    IF s = <<>> THEN acc ELSE ParseDigits(Tail(s), 10 * acc + Head(s))

\* str::parse::<usize>(): Err on the empty string and on any non-digit
Parse(s) ==
    IF s = <<>> \/ \E i \in 1..Len(s) : s[i] \notin 0..9
    THEN ParseError
    ELSE ParseDigits(s, 0)

\* Option<String> as returned by GET
None == [some |-> FALSE, s |-> <<>>]
Some(s) == [some |-> TRUE, s |-> s]

\* HSET / HDEL on a hash held as a function
hset(h, k, v) == (k :> v) @@ h
hdel(h, k) == [x \in (DOMAIN h) \ {k} |-> h[x]]

(***************************** claims and tokens ***************************)
NoId == 0

\* AccessClaims / RefreshClaims; an AccessClaims has no prf and pex
Claims(sub, jti, iat, exp, prf, pex, typ, roles) ==
    [sub |-> sub, jti |-> jti, iat |-> iat, exp |-> exp,
     prf |-> prf, pex |-> pex, typ |-> typ, roles |-> roles]

NoClaims == Claims("", NoId, 0, 0, NoId, 0, 0, <<>>)

\* jsonwebtoken::encode: the payload is the serialised struct, signed with key
encode(shape, claims, key) == [shape |-> shape, claims |-> claims, key |-> key]

NoToken == encode("none", NoClaims, "none")

(***************************** roles.rs ************************************)
\* char::is_whitespace on the characters used here
IsSpace(c) == c \in {" ", "\t"}

RECURSIVE TrimStart(_)
TrimStart(s) == IF s # <<>> /\ IsSpace(Head(s)) THEN TrimStart(Tail(s)) ELSE s

RECURSIVE TrimEnd(_)
TrimEnd(s) ==
    IF s # <<>> /\ IsSpace(s[Len(s)]) THEN TrimEnd(SubSeq(s, 1, Len(s) - 1)) ELSE s

\* mutant: only the leading whitespace removed
Trim_StartOnly(s) == TrimStart(s)

\* str::trim
Trim(s) == TrimEnd(TrimStart(s))

\* str::split(','): the sequence of pieces, cur being the piece under construction
RECURSIVE SplitComma(_, _)
SplitComma(s, cur) ==
    IF s = <<>> THEN <<cur>>
    ELSE IF Head(s) = "," THEN <<cur>> \o SplitComma(Tail(s), <<>>)
    ELSE SplitComma(Tail(s), Append(cur, Head(s)))

contains_role_admin(roles) ==
    IF roles = <<>> THEN FALSE
    ELSE LET parts == SplitComma(roles, <<>>)
         IN  \E i \in 1..Len(parts) : Trim(parts[i]) = USER_ROLE_ADMIN

is_role_admin(roles) == IF ~contains_role_admin(roles) THEN "Forbidden" ELSE "Ok"

(***************************** jwt.rs **************************************)
\* serde deserialisation of the payload into T: RefreshClaims needs prf and
\* pex, which an AccessClaims payload lacks; AccessClaims ignores the fields
\* it does not know.
Deserializes(token, target) ==
    \/ target = "refresh" /\ token.shape = "refresh"
    \/ target = "access" /\ token.shape \in {"access", "refresh"}

\* mutant: the roles field lost when the payload is read
Deserialize_DropsRoles(token, target) ==
    [token.claims EXCEPT !.prf = NoId, !.pex = 0, !.roles = <<>>]

Deserialize(token, target) ==
    IF target = "access"
    THEN [token.claims EXCEPT !.prf = NoId, !.pex = 0]
    ELSE token.claims

\* mutant: the expiry check without the leeway
NotExpired_IgnoresLeeway(claims, leeway, t) == ~(claims.exp < t)

\* mutant: the token already expired in the last second of the leeway
NotExpired_Strict(claims, leeway, t) == claims.exp > t - leeway

\* jsonwebtoken validation of exp with validation.leeway:
\* the token is expired when exp < now - leeway
NotExpired(claims, leeway, t) == ~(claims.exp < t - leeway)

\* mutant: the payload accepted without verifying the signature
decode_token_SkipsSignature(token, target, cfg, t) ==
    IF /\ Deserializes(token, target)
       /\ NotExpired(token.claims, cfg.jwt_validation_leeway_seconds, t)
    THEN [ok |-> TRUE, claims |-> Deserialize(token, target)]
    ELSE [ok |-> FALSE, claims |-> NoClaims]

\* decode_token::<T>: [ok, claims]; every failure is WrongCredentials
decode_token(token, target, cfg, t) ==
    IF /\ token.key = ServerSecret
       /\ Deserializes(token, target)
       /\ NotExpired(token.claims, cfg.jwt_validation_leeway_seconds, t)
    THEN [ok |-> TRUE, claims |-> Deserialize(token, target)]
    ELSE [ok |-> FALSE, claims |-> NoClaims]

(***************************** token_service.rs ****************************)
\* mutant: the cutoff compared with > instead of >=
CompareCutoff_Strict(stored, iat) ==
    IF Parse(stored) > iat THEN "Ok(true)" ELSE "Ok(false)"

\* RedisResult<bool> is one of "Ok(true)", "Ok(false)", "Err"; "Panic" is the
\* unwrap() of a stored value that does not parse.
CompareCutoff(stored, iat) ==
    IF Parse(stored) = ParseError THEN "Panic"
    ELSE IF Parse(stored) >= iat THEN "Ok(true)"
    ELSE "Ok(false)"

is_global_revoked(claims, r, fails) ==
    IF fails THEN "Err"
    ELSE IF r.global.some THEN CompareCutoff(r.global.s, claims.iat)
    ELSE "Ok(false)"

\* mutant: the cutoff of any user applied to every subject
is_user_revoked_AnyUser(claims, r, fails) ==
    IF \E u \in DOMAIN r.user : Parse(r.user[u]) >= claims.iat
    THEN "Ok(true)" ELSE "Ok(false)"

is_user_revoked(claims, r, fails) ==
    IF fails THEN "Err"
    ELSE IF claims.sub \in DOMAIN r.user THEN CompareCutoff(r.user[claims.sub], claims.iat)
    ELSE "Ok(false)"

is_token_revoked(claims, r, fails) ==
    IF fails THEN "Err"
    ELSE IF claims.jti \in DOMAIN r.tokens THEN "Ok(true)"
    ELSE "Ok(false)"

\* mutant: the per-user cutoff left out of the check
is_revoked_SkipsUser(claims, r, failAt) ==
    LET g == is_global_revoked(claims, r, failAt = 1)
        k == is_token_revoked(claims, r, failAt = 3)
    IN  IF g # "Ok(false)" THEN g ELSE k

\* is_revoked: failAt = k makes the k-th Redis call of the sequence
\* GET global (1), HGET user (2), HEXISTS token (3) fail; 0 is no failure.
is_revoked(claims, r, failAt) ==
    LET g == is_global_revoked(claims, r, failAt = 1)
        u == is_user_revoked(claims, r, failAt = 2)
        k == is_token_revoked(claims, r, failAt = 3)
    IN  IF g # "Ok(false)" THEN g
        ELSE IF u # "Ok(false)" THEN u
        ELSE k

\* mutant: the cutoff written one second ahead of the clock
revoke_global_NextSecond(r, t, fails) ==
    IF fails THEN [res |-> "Err", redis |-> r]
    ELSE [res |-> "Ok", redis |-> [r EXCEPT !.global = Some(Format(t + 1))]]

\* revoke_global / revoke_user_tokens: SET / HSET of the current timestamp
revoke_global(r, t, fails) ==
    IF fails THEN [res |-> "Err", redis |-> r]
    ELSE [res |-> "Ok", redis |-> [r EXCEPT !.global = Some(Format(t))]]

revoke_user_tokens(user_id, r, t, fails) ==
    IF fails THEN [res |-> "Err", redis |-> r]
    ELSE [res |-> "Ok", redis |-> [r EXCEPT !.user = hset(r.user, user_id, Format(t))]]

\* mutant: the denylist entries written with the access token's expiry
RevokeExpiry_AccessExpiry(claims) == claims.pex

\* token_service::revoke_refresh_token: HSET jti then HSET prf, both with the
\* refresh token's exp; failAt = 1 or 2 is the HSET that fails.
RevokeExpiry(claims) == claims.exp

\* mutant: only the refresh token's own id put on the list
RevokeList_RefreshOnly(claims) == <<claims.jti, claims.jti>>

RevokeList(claims) == <<claims.jti, claims.prf>>

token_service_revoke_refresh_token(claims, r, failAt) ==
    LET v == Format(RevokeExpiry(claims))
        l == RevokeList(claims)
        r1 == [r EXCEPT !.tokens = hset(r.tokens, l[1], v)]
        r2 == [r1 EXCEPT !.tokens = hset(r1.tokens, l[2], v)]
    IN  IF failAt = 1 THEN [res |-> "Err", redis |-> r]
        ELSE IF failAt = 2 THEN [res |-> "Err", redis |-> r1]
        ELSE [res |-> "Ok", redis |-> r2]

\* mutant: an entry deleted in the very second it expires
CleanupCondition_AtOrPast(t, exp) == t >= exp

\* cleanup_expired: the test of the loop body
CleanupCondition(t, exp) == t > exp

\* The loop over the HGETALL snapshot, in the HashMap's iteration order.
\* call numbers the Redis calls: HGETALL is 1, the k-th HDEL is k + 1;
\* the call numbered failAt fails and `?` returns its error.
RECURSIVE CleanupLoop(_, _, _, _, _, _)
CleanupLoop(r, t, entries, deleted, call, failAt) ==
    IF entries = <<>> THEN [res |-> "Ok", deleted |-> deleted, redis |-> r]
    ELSE LET key == Head(entries).key
             exp == Parse(Head(entries).exp)
         IN  IF exp = ParseError
             THEN CleanupLoop(r, t, Tail(entries), deleted, call, failAt)
             ELSE IF CleanupCondition(t, exp)
             THEN IF call = failAt
                  THEN [res |-> "Err", deleted |-> 0, redis |-> r]
                  ELSE CleanupLoop([r EXCEPT !.tokens = hdel(r.tokens, key)], t,
                                   Tail(entries), deleted + 1, call + 1, failAt)
             ELSE CleanupLoop(r, t, Tail(entries), deleted, call, failAt)

\* mutant: every entry of the snapshot deleted
cleanup_expired_DeleteAll(r, t, order, failAt) ==
    [res |-> "Ok", deleted |-> Len(order), redis |-> [r EXCEPT !.tokens = <<>>]]

cleanup_expired(r, t, order, failAt) ==
    IF failAt = 1 THEN [res |-> "Err", deleted |-> 0, redis |-> r]
    ELSE CleanupLoop(r, t,
                     [i \in 1..Len(order) |-> [key |-> order[i], exp |-> r.tokens[order[i]]]],
                     0, 2, failAt)

\* the iteration orders of a HashMap with key set S
RECURSIVE Orders(_)
Orders(S) ==
    IF S = {} THEN {<<>>}
    ELSE UNION {{<<x>> \o p : p \in Orders(S \ {x})} : x \in S}

(***************************** auth.rs *************************************)
\* mutant: a Redis error read as "not revoked"
RevokedToResult_FailOpen(rv) ==
    IF rv = "Ok(true)" THEN "WrongCredentials" ELSE "Ok"

\* AuthError of a RedisResult<bool>, as validate_revoked maps it
RevokedToResult(rv) ==
    IF rv = "Err" THEN "RedisError"
    ELSE IF rv = "Panic" THEN "Panic"
    ELSE IF rv = "Ok(true)" THEN "WrongCredentials"
    ELSE "Ok"

validate_revoked(claims, r, failAt) == RevokedToResult(is_revoked(claims, r, failAt))

\* mutant: any typ at or above the expected one accepted
validate_token_type_AtLeast(claims, expected_type) == claims.typ >= expected_type

validate_token_type(claims, expected_type) == claims.typ = expected_type

\* mutant: the pair revoked without the revocation check before it
auth_revoke_refresh_token_Unchecked(claims, r, failAt) ==
    LET w == token_service_revoke_refresh_token(claims, r,
                 IF failAt \in 4..5 THEN failAt - 3 ELSE 0)
    IN  [res |-> IF w.res = "Ok" THEN "Ok" ELSE "RedisError", redis |-> w.redis]

\* auth::revoke_refresh_token: validate_revoked, then the two HSETs.
\* failAt numbers the Redis calls 1..3 (is_revoked) and 4..5 (HSET).
auth_revoke_refresh_token(claims, r, failAt) ==
    LET v == validate_revoked(claims, r, IF failAt \in 1..3 THEN failAt ELSE 0)
        w == token_service_revoke_refresh_token(claims, r,
                 IF failAt \in 4..5 THEN failAt - 3 ELSE 0)
    IN  IF v # "Ok" THEN [res |-> v, redis |-> r]
        ELSE [res |-> IF w.res = "Ok" THEN "Ok" ELSE "RedisError", redis |-> w.redis]

\* mutant: the token type validated before the feature flag is read
logout_TypeCheckedFirst(claims, cfg, r, failAt) ==
    IF ~validate_token_type(claims, RefreshToken)
    THEN [res |-> "InvalidToken", redis |-> r]
    ELSE IF ~cfg.jwt_enable_revoked_tokens
    THEN [res |-> "RevokedTokensInactive", redis |-> r]
    ELSE auth_revoke_refresh_token(claims, r, failAt)

logout(claims, cfg, r, failAt) ==
    IF ~cfg.jwt_enable_revoked_tokens
    THEN [res |-> "RevokedTokensInactive", redis |-> r]
    ELSE IF ~validate_token_type(claims, RefreshToken)
    THEN [res |-> "InvalidToken", redis |-> r]
    ELSE auth_revoke_refresh_token(claims, r, failAt)

\* mutant: prf set to the refresh token's own id
generate_tokens_SelfPaired(user, t, id) ==
    LET access_token_exp == t + AccessTtl
        access_claims == Claims(user.id, id, t, access_token_exp, NoId, 0,
                                AccessToken, user.roles)
        refresh_claims == Claims(user.id, id + 1, t, t + RefreshTtl, id + 1,
                                 access_token_exp, RefreshToken, user.roles)
    IN  [access_token |-> encode("access", access_claims, ServerSecret),
         refresh_token |-> encode("refresh", refresh_claims, ServerSecret)]

\* generate_tokens: id and id + 1 are the two Uuid::new_v4() values
generate_tokens(user, t, id) ==
    LET access_token_exp == t + AccessTtl
        access_claims == Claims(user.id, id, t, access_token_exp, NoId, 0,
                                AccessToken, user.roles)
        refresh_claims == Claims(user.id, id + 1, t, t + RefreshTtl, id,
                                 access_token_exp, RefreshToken, user.roles)
    IN  [access_token |-> encode("access", access_claims, ServerSecret),
         refresh_token |-> encode("refresh", refresh_claims, ServerSecret)]

NoTokens == [access_token |-> NoToken, refresh_token |-> NoToken]

\* user_repo::get_by_id / get_by_username: the row, when there is one
UserRow(u) == [id |-> u, roles |-> UserRoles(u)]

\* mutant: a new pair issued without revoking the presented one
refresh_WithoutRevoke(claims, cfg, r, failAt, found, t, id) ==
    IF claims.typ # RefreshToken
    THEN [res |-> "InvalidToken", redis |-> r, tokens |-> NoTokens]
    ELSE IF ~found THEN [res |-> "SQLxError", redis |-> r, tokens |-> NoTokens]
    ELSE [res |-> "Ok", redis |-> r,
          tokens |-> generate_tokens(UserRow(claims.sub), t, id)]

\* mutant: the user looked up before the presented pair is revoked
refresh_LookupFirst(claims, cfg, r, failAt, found, t, id) ==
    IF ~validate_token_type(claims, RefreshToken)
    THEN [res |-> "InvalidToken", redis |-> r, tokens |-> NoTokens]
    ELSE IF ~found THEN [res |-> "SQLxError", redis |-> r, tokens |-> NoTokens]
    ELSE LET rv == IF cfg.jwt_enable_revoked_tokens
                   THEN auth_revoke_refresh_token(claims, r, failAt)
                   ELSE [res |-> "Ok", redis |-> r]
         IN  IF rv.res # "Ok" THEN [res |-> rv.res, redis |-> rv.redis, tokens |-> NoTokens]
             ELSE [res |-> "Ok", redis |-> rv.redis,
                   tokens |-> generate_tokens(UserRow(claims.sub), t, id)]

\* refresh: found is whether user_repo::get_by_id returns the row
refresh(claims, cfg, r, failAt, found, t, id) ==
    IF ~validate_token_type(claims, RefreshToken)
    THEN [res |-> "InvalidToken", redis |-> r, tokens |-> NoTokens]
    ELSE LET rv == IF cfg.jwt_enable_revoked_tokens
                   THEN auth_revoke_refresh_token(claims, r, failAt)
                   ELSE [res |-> "Ok", redis |-> r]
         IN  IF rv.res # "Ok" THEN [res |-> rv.res, redis |-> rv.redis, tokens |-> NoTokens]
             ELSE IF ~found THEN [res |-> "SQLxError", redis |-> rv.redis, tokens |-> NoTokens]
             ELSE [res |-> "Ok", redis |-> rv.redis,
                   tokens |-> generate_tokens(UserRow(claims.sub), t, id)]

cleanup_revoked_and_expired(cfg, r, t, order, failAt) ==
    IF ~cfg.jwt_enable_revoked_tokens
    THEN [res |-> "RevokedTokensInactive", deleted |-> 0, redis |-> r]
    ELSE LET c == cleanup_expired(r, t, order, failAt)
         IN  [res |-> IF c.res = "Ok" THEN "Ok" ELSE "RedisError",
              deleted |-> c.deleted, redis |-> c.redis]

(***************************** extractors.rs *******************************)
\* mutant: a request without a bearer token answered MissingCredentials
decode_token_from_request_part_MissingCredentials(token, target, cfg, r, t, failAt) ==
    LET d == decode_token(token, target, cfg, t)
        v == IF cfg.jwt_enable_revoked_tokens
             THEN validate_revoked(d.claims, r, failAt)
             ELSE "Ok"
    IN  IF token = NoToken THEN [res |-> "MissingCredentials", claims |-> NoClaims]
        ELSE IF ~d.ok THEN [res |-> "WrongCredentials", claims |-> NoClaims]
        ELSE IF v # "Ok" THEN [res |-> v, claims |-> NoClaims]
        ELSE [res |-> "Ok", claims |-> d.claims]

\* mutant: the revocation check made whatever the feature flag says
decode_token_from_request_part_AlwaysChecks(token, target, cfg, r, t, failAt) ==
    LET d == decode_token(token, target, cfg, t)
        v == validate_revoked(d.claims, r, failAt)
    IN  IF token = NoToken THEN [res |-> "WrongCredentials", claims |-> NoClaims]
        ELSE IF ~d.ok THEN [res |-> "WrongCredentials", claims |-> NoClaims]
        ELSE IF v # "Ok" THEN [res |-> v, claims |-> NoClaims]
        ELSE [res |-> "Ok", claims |-> d.claims]

\* decode_token_from_request_part::<T>: token = NoToken is a request whose
\* Authorization header is absent or is no bearer header.
decode_token_from_request_part(token, target, cfg, r, t, failAt) ==
    LET d == decode_token(token, target, cfg, t)
        v == IF cfg.jwt_enable_revoked_tokens
             THEN validate_revoked(d.claims, r, failAt)
             ELSE "Ok"
    IN  IF token = NoToken THEN [res |-> "WrongCredentials", claims |-> NoClaims]
        ELSE IF ~d.ok THEN [res |-> "WrongCredentials", claims |-> NoClaims]
        ELSE IF v # "Ok" THEN [res |-> v, claims |-> NoClaims]
        ELSE [res |-> "Ok", claims |-> d.claims]

(***************************** error responses *****************************)
\* what a redis::RedisError or a sqlx::Error says of itself (Display)
BackendErrorTexts == {"Connection refused (os error 111)", "broken pipe"}

\* Display of AuthError (thiserror): RedisError and SQLxError are
\* #[error(transparent)], their text is the text of the error they wrap
AuthErrorToString(err, text) ==
    CASE err = "WrongCredentials" -> "wrong credentials"
      [] err = "MissingCredentials" -> "missing credentials"
      [] err = "TokenCreationError" -> "token creation error"
      [] err = "InvalidToken" -> "invalid token"
      [] err = "RevokedTokensInactive" -> "use of revoked tokens is inactive"
      [] err = "Forbidden" -> "forbidden"
      [] err \in {"RedisError", "SQLxError"} -> text

\* impl From<AuthError> for APIError: the one entry of the response
APIError_from_AuthError(err, text) ==
    LET sc == CASE err = "WrongCredentials" ->
                       [status |-> 401, code |-> "authentication_wrong_credentials"]
                [] err = "MissingCredentials" ->
                       [status |-> 400, code |-> "authentication_missing_credentials"]
                [] err = "TokenCreationError" ->
                       [status |-> 500, code |-> "authentication_token_creation_error"]
                [] err = "InvalidToken" ->
                       [status |-> 400, code |-> "authentication_invalid_token"]
                [] err = "Forbidden" ->
                       [status |-> 403, code |-> "authentication_forbidden"]
                [] err = "RevokedTokensInactive" ->
                       [status |-> 400, code |-> "authentication_revoked_tokens_inactive"]
                [] err = "RedisError" -> [status |-> 500, code |-> "redis_error"]
                [] err = "SQLxError" -> [status |-> 500, code |-> "database_error"]
    IN  [status |-> sc.status, code |-> sc.code, kind |-> "authentication_error",
         message |-> AuthErrorToString(err, text)]

(***************************** state ***************************************)
\* now         the clock, in seconds
\* config      jwt_validation_leeway_seconds and jwt_enable_revoked_tokens
\* redis       the three keys of constants.rs: global (a string), user and
\*             tokens (hashes)
\* issued      the signed tokens generate_tokens has returned
\* nextId      the next fresh Uuid::new_v4()
\* logins      the number of successful logins
\* revokedIds  history: the token ids of the pairs whose revocation succeeded
\* last is the log of the last operation that changed the state: its name
\* and what it returned.  A call that changes nothing leaves no trace.
\* pc          where each concurrent call stands: the operation, the await
\*             point it is at and the claims it was given
\* holders     the calls that hold a MutexGuard of state.redis
\* redeemed    history: for a refresh token id, the number of refresh calls
\*             that presented it and returned a new pair
Last(op, res) == [op |-> op, res |-> res]

\* the tasks that serve requests concurrently
Procs == {"p1", "p2"}

Idle == [op |-> "none", at |-> "idle", claims |-> NoClaims]

Redeem(f, j) == IF j \in DOMAIN f THEN [f EXCEPT ![j] = @ + 1] ELSE (j :> 1) @@ f

EmptyRedis == [global |-> None, user |-> <<>>, tokens |-> <<>>]

Init ==
    /\ now = StartTime
    /\ config \in [jwt_validation_leeway_seconds : 0..MaxLeeway,
                   jwt_enable_revoked_tokens : BOOLEAN]
    /\ redis = EmptyRedis
    /\ issued = {}
    /\ nextId = 1
    /\ logins = 0
    /\ revokedIds = {}
    /\ last = Last("init", "Ok")
    /\ pc = [p \in Procs |-> Idle]
    /\ holders = {}
    /\ redeemed = <<>>

\* the tokens a client can present: those issued, the same claims signed with
\* another secret, and no bearer token at all
Presented == issued \cup {encode(t.shape, t.claims, OtherSecret) : t \in issued} \cup {NoToken}

Targets == {"access", "refresh"}

\* RefreshClaims values handed to logout / refresh: the claims of the issued
\* refresh tokens, with any value of the u8 typ field
RefreshInputs ==
    {[t.claims EXCEPT !.typ = y] : t \in {x \in issued : x.shape = "refresh"}, y \in 0..MaxTyp}

\* AccessClaims values handed to the handlers that extract AccessClaims
AccessInputs == {Deserialize(t, "access") : t \in issued}

CanIssue == nextId + 1 <= 2 * MaxPairs

\* the number of cutoffs the store holds
Cutoffs(r) == (IF r.global.some THEN 1 ELSE 0) + Cardinality(DOMAIN r.user)

\* The HashMap orders a cleanup run is explored with: the order decides
\* nothing unless an HDEL fails (failAt > 1), so one order stands for all then.
CleanupOrders(r, failAt) ==
    IF failAt <= 1 THEN {CHOOSE o \in Orders(DOMAIN r.tokens) : TRUE}
    ELSE Orders(DOMAIN r.tokens)

\* The Redis calls of a cleanup run that can fail: HGETALL (1) and one HDEL
\* for each entry the loop deletes (2, 3, ...); 0 is no failure.
CleanupFailures(r, t) ==
    0..(Cardinality({k \in DOMAIN r.tokens : CleanupCondition(t, Parse(r.tokens[k]))}) + 1)

(***************************** operations **********************************)
Tick ==
    /\ now < StartTime + MaxTicks
    /\ now' = now + 1
    /\ last' = Last("tick", "Ok")
    /\ UNCHANGED <<config, redis, issued, nextId, logins, revokedIds, conc>>

\* login_handler: valid is get_by_username(..).is_ok() and the password check
login_handler(u, valid, t, id) ==
    IF valid THEN [res |-> "Ok", tokens |-> generate_tokens(UserRow(u), t, id)]
    ELSE [res |-> "WrongCredentials", tokens |-> NoTokens]

Login(u, valid) ==
    LET l == login_handler(u, valid, now, nextId)
    IN  /\ l.res = "Ok" => CanIssue /\ logins < MaxLogins
        /\ issued' = IF l.res = "Ok"
                     THEN issued \cup {l.tokens.access_token, l.tokens.refresh_token}
                     ELSE issued
        /\ nextId' = IF l.res = "Ok" THEN nextId + 2 ELSE nextId
        /\ logins' = IF l.res = "Ok" THEN logins + 1 ELSE logins
        /\ last' = IF l.res = "Ok" THEN Last("login", l.res) ELSE last
        /\ UNCHANGED <<now, config, redis, revokedIds, conc>>

\* FromRequestParts for AccessClaims (target "access") / RefreshClaims ("refresh")
Extract(token, target, failAt) ==
    LET e == decode_token_from_request_part(token, target, config, redis, now, failAt)
    IN  /\ e.res \in {"Ok", "WrongCredentials", "RedisError", "Panic"}
        /\ UNCHANGED vars

\* logout_handler body: auth::logout
Logout(claims, failAt) ==
    LET l == logout(claims, config, redis, failAt)
    IN  /\ redis' = l.redis
        /\ revokedIds' = IF l.res = "Ok" THEN revokedIds \cup {claims.jti, claims.prf}
                         ELSE revokedIds
        /\ last' = IF l.redis # redis THEN Last("logout", l.res) ELSE last
        /\ UNCHANGED <<now, config, issued, nextId, logins, conc>>

\* auth::refresh
Refresh(claims, failAt, found) ==
    LET f == refresh(claims, config, redis, failAt, found, now, nextId)
        revoked == /\ config.jwt_enable_revoked_tokens
                   /\ f.res \in {"Ok", "SQLxError"}
    IN  /\ f.res = "Ok" => CanIssue
        /\ redis' = f.redis
        /\ revokedIds' = IF revoked THEN revokedIds \cup {claims.jti, claims.prf}
                         ELSE revokedIds
        /\ issued' = IF f.res = "Ok"
                     THEN issued \cup {f.tokens.access_token, f.tokens.refresh_token}
                     ELSE issued
        /\ nextId' = IF f.res = "Ok" THEN nextId + 2 ELSE nextId
        /\ last' = IF f.redis # redis \/ f.res = "Ok" THEN Last("refresh", f.res) ELSE last
        /\ redeemed' = IF f.res = "Ok" THEN Redeem(redeemed, claims.jti) ELSE redeemed
        /\ UNCHANGED <<now, config, logins, pc, holders>>

\* mutant: the cleanup run without the role check
cleanup_handler_Ungated(claims, cfg, r, t, order, failAt) ==
    cleanup_revoked_and_expired(cfg, r, t, order, failAt)

\* cleanup_handler: validate_role_admin, then auth::cleanup_revoked_and_expired
cleanup_handler(claims, cfg, r, t, order, failAt) ==
    IF is_role_admin(claims.roles) # "Ok"
    THEN [res |-> is_role_admin(claims.roles), deleted |-> 0, redis |-> r]
    ELSE cleanup_revoked_and_expired(cfg, r, t, order, failAt)

Cleanup(claims, order, failAt) ==
    LET c == cleanup_handler(claims, config, redis, now, order, failAt)
    IN  /\ redis' = c.redis
        /\ last' = IF c.redis # redis THEN Last("cleanup", c.res) ELSE last
        /\ UNCHANGED <<now, config, issued, nextId, logins, revokedIds, conc>>

RevokeGlobal(fails) ==
    LET g == revoke_global(redis, now, fails)
    IN  /\ Cutoffs(g.redis) <= MaxCutoffs
        /\ redis' = g.redis
        /\ last' = IF g.redis # redis THEN Last("revoke_global", g.res) ELSE last
        /\ UNCHANGED <<now, config, issued, nextId, logins, revokedIds, conc>>

RevokeUser(u, fails) ==
    LET g == revoke_user_tokens(u, redis, now, fails)
    IN  /\ Cutoffs(g.redis) <= MaxCutoffs
        /\ redis' = g.redis
        /\ last' = IF g.redis # redis THEN Last("revoke_user", g.res) ELSE last
        /\ UNCHANGED <<now, config, issued, nextId, logins, revokedIds, conc>>

Next ==
    \/ Tick
    \/ \E u \in Users, valid \in BOOLEAN : Login(u, valid)
    \/ \E token \in Presented, target \in Targets, failAt \in 0..3 :
          Extract(token, target, failAt)
    \/ \E claims \in RefreshInputs, failAt \in 0..5 : Logout(claims, failAt)
    \/ \E claims \in RefreshInputs, failAt \in 0..5, found \in BOOLEAN :
          Refresh(claims, failAt, found)
    \/ \E claims \in AccessInputs, failAt \in CleanupFailures(redis, now) :
          \E order \in CleanupOrders(redis, failAt) : Cleanup(claims, order, failAt)
    \/ \E fails \in BOOLEAN : RevokeGlobal(fails)
    \/ \E u \in Users, fails \in BOOLEAN : RevokeUser(u, fails)

Spec == Init /\ [][Next]_vars

(***************************** roles of a user row *************************)
\* users.roles is a free String.  The second specification starts after the
\* login of a user whose row holds any of the strings below, and applies
\* validate_role_admin to the claims of the tokens issued to that user.
RoleNames ==
    {USER_ROLE_ADMIN, <<>>, <<"a", "d", "m", "i", "n", "s">>,
     <<"A", "d", "m", "i", "n">>, <<"a", "d", " ", "m", "i", "n">>}

Pads == {<<>>, <<" ">>}

RoleEntries == {lp \o n \o rp : lp \in Pads, n \in RoleNames, rp \in Pads}

RECURSIVE RoleStrings(_)
RoleStrings(n) ==
    IF n <= 1 THEN RoleEntries
    ELSE RoleStrings(n - 1) \cup
         {s \o <<",">> \o e : s \in RoleStrings(n - 1), e \in RoleEntries}

InitRoles ==
    /\ now = StartTime
    /\ config \in [jwt_validation_leeway_seconds : 0..MaxLeeway,
                   jwt_enable_revoked_tokens : BOOLEAN]
    /\ redis = EmptyRedis
    /\ \E u \in Users, roles \in RoleStrings(MaxRoles) :
          LET p == generate_tokens([id |-> u, roles |-> roles], StartTime, 1)
          IN  issued = {p.access_token, p.refresh_token}
    /\ nextId = 3
    /\ logins = 1
    /\ revokedIds = {}
    /\ last = Last("login", "Ok")
    /\ pc = [p \in Procs |-> Idle]
    /\ holders = {}
    /\ redeemed = <<>>

\* ClaimsMethods::validate_role_admin of the extracted claims
ValidateRoleAdmin(claims) ==
    /\ last' = Last("validate_role_admin", is_role_admin(claims.roles))
    /\ UNCHANGED <<now, config, redis, issued, nextId, logins, revokedIds, conc>>

NextRoles ==
    \/ Tick
    \/ \E claims \in AccessInputs : ValidateRoleAdmin(claims)

SpecRoles == InitRoles /\ [][NextRoles]_vars

(***************************** stored values *******************************)
\* Redis is a server of its own: the three keys can hold what any client
\* wrote.  The third specification starts after a login, with a store whose
\* cutoffs and denylist entries hold a timestamp or the empty string, which
\* parse::<usize>() rejects, and runs the extractor and the cleanup on it.
StoredValues == {Format(StartTime), Format(StartTime + RefreshTtl), <<>>}

StoredHashes(keys) ==
    UNION {[ks -> StoredValues] : ks \in SUBSET keys}

InitStore ==
    /\ now = StartTime
    /\ config \in [jwt_validation_leeway_seconds : 0..MaxLeeway,
                   jwt_enable_revoked_tokens : BOOLEAN]
    /\ \E g \in {None} \cup {Some(v) : v \in StoredValues},
          u \in StoredHashes({"u1"}), k \in StoredHashes({1, 2}) :
          redis = [global |-> g, user |-> u, tokens |-> k]
    /\ LET p == generate_tokens(UserRow("u1"), StartTime, 1)
       IN  issued = {p.access_token, p.refresh_token}
    /\ nextId = 3
    /\ logins = 1
    /\ revokedIds = {}
    /\ last = Last("login", "Ok")
    /\ pc = [p \in Procs |-> Idle]
    /\ holders = {}
    /\ redeemed = <<>>

NextStore ==
    \/ Tick
    \/ \E token \in Presented, target \in Targets, failAt \in 0..3 :
          Extract(token, target, failAt)
    \/ \E claims \in AccessInputs, failAt \in CleanupFailures(redis, now) :
          \E order \in CleanupOrders(redis, failAt) : Cleanup(claims, order, failAt)

SpecStore == InitStore /\ [][NextStore]_vars

(***************************** concurrent calls ****************************)
\* Handlers run as concurrent tasks that share AppState.  state.redis is a
\* tokio Mutex: lock().await suspends the task until no guard is alive, and
\* the guard releases the mutex when it is dropped.  A call is followed from
\* one await point to the next; everything done under one guard is one step.

\* the await points at which a call waits for the mutex, and the sections
\* it runs while it holds the guard
LockPoints == {"is_revoked_lock", "revoke_refresh_token_lock", "cleanup_expired_lock",
               "revoke_global_lock", "revoke_user_tokens_lock"}

Sections == {"is_revoked", "revoke_refresh_token", "cleanup_expired",
             "revoke_global", "revoke_user_tokens"}

SectionOf(at) ==
    CASE at = "is_revoked_lock" -> "is_revoked"
      [] at = "revoke_refresh_token_lock" -> "revoke_refresh_token"
      [] at = "cleanup_expired_lock" -> "cleanup_expired"
      [] at = "revoke_global_lock" -> "revoke_global"
      [] at = "revoke_user_tokens_lock" -> "revoke_user_tokens"

Call(op, at, claims) == [op |-> op, at |-> at, claims |-> claims]

\* Mutex::lock: the guard is handed out only while no guard is alive
lock(h, p) == [enabled |-> h = {}, holders |-> h \cup {p}]

\* a MutexGuard going out of scope, or drop(redis)
drop(h, p) == h \ {p}

\* mutant: the guard released by the explicit drop only, kept on the early
\* returns
is_revoked_guard_ExplicitDropOnly(rv, h, p) == IF rv = "Ok(false)" THEN drop(h, p) ELSE h

\* The guard of is_revoked after it returned rv: dropped explicitly before
\* Ok(false), and by leaving the scope on every `?` and every Ok(true).
is_revoked_guard(rv, h, p) == drop(h, p)

InitConc ==
    /\ now = StartTime
    /\ config = [jwt_validation_leeway_seconds |-> 0, jwt_enable_revoked_tokens |-> TRUE]
    /\ redis = EmptyRedis
    /\ LET l == generate_tokens(UserRow("u1"), StartTime, 1)
       IN  issued = {l.access_token, l.refresh_token}
    /\ nextId = 3
    /\ logins = 1
    /\ revokedIds = {}
    /\ last = Last("login", "Ok")
    /\ pc = [p \in Procs |-> Idle]
    /\ holders = {}
    /\ redeemed = <<>>

\* The concurrent clients present the tokens of the logins; the pairs that
\* refresh calls return are issued and recorded, and not presented again.
LoginTokens == {t \in issued : t.claims.jti <= 2 * MaxLogins}

\* every running call can still issue its pair
CanIssueConc == nextId + 1 <= 2 * (MaxLogins + Cardinality(Procs))

\* a request reaches a handler: the part of the call before its first await
\* on the mutex
CallRefresh(p, claims) ==
    /\ pc[p] = Idle
    /\ validate_token_type(claims, RefreshToken)
    /\ pc' = [pc EXCEPT ![p] = Call("refresh",
                  IF config.jwt_enable_revoked_tokens THEN "is_revoked_lock"
                  ELSE "get_by_id", claims)]
    /\ UNCHANGED <<now, config, redis, issued, nextId, logins, revokedIds, last,
                   holders, redeemed>>

CallExtract(p, token, target) ==
    LET d == decode_token(token, target, config, now)
    IN  /\ pc[p] = Idle
        /\ d.ok
        /\ config.jwt_enable_revoked_tokens
        /\ pc' = [pc EXCEPT ![p] = Call("extract", "is_revoked_lock", d.claims)]
        /\ UNCHANGED <<now, config, redis, issued, nextId, logins, revokedIds, last,
                       holders, redeemed>>

CallCleanup(p, claims) ==
    /\ pc[p] = Idle
    /\ is_role_admin(claims.roles) = "Ok"
    /\ config.jwt_enable_revoked_tokens
    /\ pc' = [pc EXCEPT ![p] = Call("cleanup", "cleanup_expired_lock", claims)]
    /\ UNCHANGED <<now, config, redis, issued, nextId, logins, revokedIds, last,
                   holders, redeemed>>

CallRevokeGlobal(p) ==
    /\ pc[p] = Idle
    /\ Cutoffs(revoke_global(redis, now, FALSE).redis) <= MaxCutoffs
    /\ pc' = [pc EXCEPT ![p] = Call("revoke_global", "revoke_global_lock", NoClaims)]
    /\ UNCHANGED <<now, config, redis, issued, nextId, logins, revokedIds, last,
                   holders, redeemed>>

CallRevokeUser(p, u) ==
    /\ pc[p] = Idle
    /\ Cutoffs(revoke_user_tokens(u, redis, now, FALSE).redis) <= MaxCutoffs
    /\ pc' = [pc EXCEPT ![p] = Call("revoke_user_tokens", "revoke_user_tokens_lock",
                                    [NoClaims EXCEPT !.sub = u])]
    /\ UNCHANGED <<now, config, redis, issued, nextId, logins, revokedIds, last,
                   holders, redeemed>>

\* state.redis.lock().await returns
Acquire(p) ==
    /\ pc[p].at \in LockPoints
    /\ lock(holders, p).enabled
    /\ holders' = lock(holders, p).holders
    /\ pc' = [pc EXCEPT ![p].at = SectionOf(@)]
    /\ UNCHANGED <<now, config, redis, issued, nextId, logins, revokedIds, last, redeemed>>

\* is_revoked under its guard; refresh goes on to revoke the pair when
\* validate_revoked answers Ok, every other call ends here
IsRevokedSection(p, failAt) ==
    LET rv == is_revoked(pc[p].claims, redis, failAt)
    IN  /\ pc[p].at = "is_revoked"
        /\ holders' = is_revoked_guard(rv, holders, p)
        /\ pc' = [pc EXCEPT ![p] =
                     IF pc[p].op = "refresh" /\ RevokedToResult(rv) = "Ok"
                     THEN [@ EXCEPT !.at = "revoke_refresh_token_lock"]
                     ELSE Idle]
        /\ UNCHANGED <<now, config, redis, issued, nextId, logins, revokedIds, last,
                       redeemed>>

\* token_service::revoke_refresh_token under its guard
RevokeRefreshTokenSection(p, failAt) ==
    LET w == token_service_revoke_refresh_token(pc[p].claims, redis, failAt)
    IN  /\ pc[p].at = "revoke_refresh_token"
        /\ redis' = w.redis
        /\ holders' = drop(holders, p)
        /\ revokedIds' = IF w.res = "Ok"
                         THEN revokedIds \cup {pc[p].claims.jti, pc[p].claims.prf}
                         ELSE revokedIds
        /\ last' = IF w.redis # redis THEN Last("revoke_refresh_token", w.res) ELSE last
        /\ pc' = [pc EXCEPT ![p] = IF w.res = "Ok" THEN [@ EXCEPT !.at = "get_by_id"]
                                   ELSE Idle]
        /\ UNCHANGED <<now, config, issued, nextId, logins, redeemed>>

\* the tail of refresh: user_repo::get_by_id, then generate_tokens
GetById(p, found) ==
    LET tokens == generate_tokens(UserRow(pc[p].claims.sub), now, nextId)
    IN  /\ pc[p].at = "get_by_id"
        /\ found => CanIssueConc
        /\ issued' = IF found THEN issued \cup {tokens.access_token, tokens.refresh_token}
                     ELSE issued
        /\ nextId' = IF found THEN nextId + 2 ELSE nextId
        /\ redeemed' = IF found THEN Redeem(redeemed, pc[p].claims.jti) ELSE redeemed
        /\ last' = IF found THEN Last("refresh", "Ok") ELSE last
        /\ pc' = [pc EXCEPT ![p] = Idle]
        /\ UNCHANGED <<now, config, redis, logins, revokedIds, holders>>

\* cleanup_expired under its guard
CleanupExpiredSection(p, order, failAt) ==
    LET c == cleanup_expired(redis, now, order, failAt)
    IN  /\ pc[p].at = "cleanup_expired"
        /\ redis' = c.redis
        /\ holders' = drop(holders, p)
        /\ last' = IF c.redis # redis THEN Last("cleanup", c.res) ELSE last
        /\ pc' = [pc EXCEPT ![p] = Idle]
        /\ UNCHANGED <<now, config, issued, nextId, logins, revokedIds, redeemed>>

\* revoke_global and revoke_user_tokens: the guard is a temporary of the SET
\* or HSET statement
RevokeGlobalSection(p, fails) ==
    LET g == revoke_global(redis, now, fails)
    IN  /\ pc[p].at = "revoke_global"
        /\ redis' = g.redis
        /\ holders' = drop(holders, p)
        /\ last' = IF g.redis # redis THEN Last("revoke_global", g.res) ELSE last
        /\ pc' = [pc EXCEPT ![p] = Idle]
        /\ UNCHANGED <<now, config, issued, nextId, logins, revokedIds, redeemed>>

RevokeUserSection(p, fails) ==
    LET g == revoke_user_tokens(pc[p].claims.sub, redis, now, fails)
    IN  /\ pc[p].at = "revoke_user_tokens"
        /\ redis' = g.redis
        /\ holders' = drop(holders, p)
        /\ last' = IF g.redis # redis THEN Last("revoke_user", g.res) ELSE last
        /\ pc' = [pc EXCEPT ![p] = Idle]
        /\ UNCHANGED <<now, config, issued, nextId, logins, revokedIds, redeemed>>

\* the steps a running call takes by itself
Section(p) ==
    \/ \E failAt \in 0..3 : IsRevokedSection(p, failAt)
    \/ \E failAt \in 0..2 : RevokeRefreshTokenSection(p, failAt)
    \/ \E found \in BOOLEAN : GetById(p, found)
    \/ \E failAt \in CleanupFailures(redis, now) :
          \E order \in CleanupOrders(redis, failAt) : CleanupExpiredSection(p, order, failAt)
    \/ \E fails \in BOOLEAN : RevokeGlobalSection(p, fails)
    \/ \E fails \in BOOLEAN : RevokeUserSection(p, fails)

NextConc ==
    \/ \E p \in Procs, token \in LoginTokens : CallRefresh(p, token.claims)
    \/ \E p \in Procs, token \in LoginTokens, target \in Targets :
          CallExtract(p, token, target)
    \/ \E p \in Procs, token \in LoginTokens : CallCleanup(p, Deserialize(token, "access"))
    \/ \E p \in Procs : CallRevokeGlobal(p)
    \/ \E p \in Procs, u \in Users : CallRevokeUser(p, u)
    \/ \E p \in Procs : Acquire(p)
    \/ \E p \in Procs : Section(p)

\* The runtime polls every task that can run, so a call that needs no lock
\* takes its next step (weak fairness); the tokio Mutex hands the lock to its
\* waiters in the order they asked, so a waiter is not passed over for ever
\* (strong fairness of Acquire).
FairConc ==
    \A p \in Procs : WF_vars(Section(p)) /\ SF_vars(Acquire(p))

SpecConc == InitConc /\ [][NextConc]_vars /\ FairConc

(***************************** properties **********************************)
\* Every operation is enabled in every state for each of its inputs, so a
\* property of an operation's result is stated for all its inputs in every
\* reachable state.

\* the ids the store or a token knows, and claims carrying them
KnownIds == {t.claims.jti : t \in issued} \cup DOMAIN redis.tokens
ProbeClaims(ids) ==
    {Claims(u, j, t, t, NoId, 0, AccessToken, <<>>) : u \in Users, j \in ids, t \in Times}

\* the three revocation checks, as the data model states them
GlobalCutoffMatches(c, r) == r.global.some /\ Parse(r.global.s) >= c.iat
UserCutoffMatches(c, r) == c.sub \in DOMAIN r.user /\ Parse(r.user[c.sub]) >= c.iat
DenylistMatches(c, r) == c.jti \in DOMAIN r.tokens
AnyCheckMatches(c, r) ==
    GlobalCutoffMatches(c, r) \/ UserCutoffMatches(c, r) \/ DenylistMatches(c, r)

Admitted(token, target, failAt) ==
    decode_token_from_request_part(token, target, config, redis, now, failAt).res = "Ok"

\* C1 (as stated): the extractor admits a presented token iff its signature
\* verifies, now <= expires_at + leeway and, with revocation enabled, none of
\* the three revocation checks matches its claims.
C1_AdmitsIffValid ==
    \A token \in Presented \ {NoToken}, target \in Targets, failAt \in 0..3 :
        Admitted(token, target, failAt) <=>
            /\ token.key = ServerSecret
            /\ now <= token.claims.exp + config.jwt_validation_leeway_seconds
            /\ config.jwt_enable_revoked_tokens => ~AnyCheckMatches(token.claims, redis)

\* C1 (amended): the extractor admits a presented token iff its signature
\* verifies, its payload has the fields of the claims type the endpoint
\* extracts, now <= expires_at + leeway and, with revocation enabled, no Redis
\* call of the revocation check fails and none of the three checks matches.
C1_AdmitsIffValidAndChecked ==
    \A token \in Presented \ {NoToken}, target \in Targets, failAt \in 0..3 :
        Admitted(token, target, failAt) <=>
            /\ token.key = ServerSecret
            /\ target = "refresh" => token.shape = "refresh"
            /\ now <= token.claims.exp + config.jwt_validation_leeway_seconds
            /\ config.jwt_enable_revoked_tokens =>
                   failAt = 0 /\ ~AnyCheckMatches(token.claims, redis)

\* a state in which, revocation enabled, one issued token is admitted past its
\* expires_at thanks to the leeway and another, unexpired, is rejected as revoked
C1_Witness ==
    /\ config.jwt_enable_revoked_tokens
    /\ \E token \in issued :
          /\ Admitted(token, "access", 0)
          /\ now > token.claims.exp
    /\ \E token \in issued :
          /\ ~Admitted(token, "access", 0)
          /\ NotExpired(token.claims, config.jwt_validation_leeway_seconds, now)
          /\ AnyCheckMatches(token.claims, redis)

\* C2 (as stated): with revocation enabled, once the revocation of a pair has
\* succeeded no later request presenting its refresh token or its access token
\* is admitted, whatever operations (cleanup_expired among them) ran since.
C2_RevokedNeverAdmitted ==
    config.jwt_enable_revoked_tokens =>
        \A token \in issued, target \in Targets, failAt \in 0..3 :
            token.claims.jti \in revokedIds => ~Admitted(token, target, failAt)

\* C3: when token_service::revoke_refresh_token(r) returns Ok, r.jti and r.prf
\* are both in the denylist, each mapped to r.exp, and is_revoked never
\* answers Ok(false) for claims carrying either id (Ok(true) when no call fails).
C3_PairRevokedTogether ==
    \A r \in RefreshInputs, failAt \in 0..2 :
        LET w == token_service_revoke_refresh_token(r, redis, failAt)
        IN  w.res = "Ok" =>
              /\ {r.jti, r.prf} \subseteq DOMAIN w.redis.tokens
              /\ Parse(w.redis.tokens[r.jti]) = r.exp
              /\ Parse(w.redis.tokens[r.prf]) = r.exp
              /\ \A c \in ProbeClaims({r.jti, r.prf}) :
                    /\ is_revoked(c, w.redis, 0) = "Ok(true)"
                    /\ \A f \in 1..3 : is_revoked(c, w.redis, f) \in {"Ok(true)", "Err"}

\* a state right after a logout revoked a pair: both ids are in the denylist
\* with the refresh token's exp, which differs from the access token's
C3_Witness ==
    /\ last = Last("logout", "Ok")
    /\ \E r \in RefreshInputs :
          /\ {r.jti, r.prf} \subseteq revokedIds
          /\ {r.jti, r.prf} \subseteq DOMAIN redis.tokens
          /\ Parse(redis.tokens[r.prf]) = r.exp
          /\ r.exp # r.pex

\* C4: after revoke_global() at time T = now, is_revoked is true for every
\* claims with iat <= T whatever their subject, and the global cutoff matches
\* exactly the claims with iat <= T: no leeway enters the comparison.
C4_GlobalCutoff ==
    \A fails \in BOOLEAN :
        LET g == revoke_global(redis, now, fails)
        IN  g.res = "Ok" =>
              \A c \in ProbeClaims(KnownIds \cup {NoId}) :
                  /\ c.iat <= now => is_revoked(c, g.redis, 0) = "Ok(true)"
                  /\ c.iat <= now =>
                        \A f \in 1..3 : is_revoked(c, g.redis, f) \in {"Ok(true)", "Err"}
                  /\ is_global_revoked(c, g.redis, FALSE) = "Ok(true)" <=> c.iat <= now

\* a state right after revoke_global: an unexpired issued token with iat at or
\* before the cutoff is rejected
C4_Witness ==
    /\ last = Last("revoke_global", "Ok")
    /\ config.jwt_enable_revoked_tokens
    /\ \E token \in issued :
          /\ token.claims.iat <= Parse(redis.global.s)
          /\ NotExpired(token.claims, config.jwt_validation_leeway_seconds, now)
          /\ ~Admitted(token, "access", 0)

\* C5: after revoke_user(u) at time T = now, the cutoff of u matches exactly
\* the claims of u with iat <= T, and for every other subject the result of
\* is_revoked (and of the user check) is what it was before the call.
C5_UserCutoffFrame ==
    \A u \in Users, fails \in BOOLEAN :
        LET g == revoke_user_tokens(u, redis, now, fails)
        IN  g.res = "Ok" =>
              \A c \in ProbeClaims(KnownIds \cup {NoId}) :
                  /\ c.sub = u =>
                        (is_user_revoked(c, g.redis, FALSE) = "Ok(true)" <=> c.iat <= now)
                  /\ c.sub # u =>
                        /\ is_user_revoked(c, g.redis, FALSE) = is_user_revoked(c, redis, FALSE)
                        /\ \A f \in 0..3 : is_revoked(c, g.redis, f) = is_revoked(c, redis, f)

\* a state right after revoke_user(u): an issued token of another subject,
\* issued at or before the cutoff, is still admitted
C5_Witness ==
    /\ last = Last("revoke_user", "Ok")
    /\ config.jwt_enable_revoked_tokens
    /\ \E u \in DOMAIN redis.user, token \in issued :
          /\ token.claims.sub # u
          /\ token.claims.iat <= Parse(redis.user[u])
          /\ Admitted(token, "access", 0)

\* C6 (as stated): with revocation enabled, logout called twice in sequence
\* with the same valid refresh claims returns Ok both times and the second
\* call leaves the denylist as the first left it.
C6_LogoutTwiceSucceeds ==
    config.jwt_enable_revoked_tokens =>
        \A r \in RefreshInputs :
            LET first == logout(r, config, redis, 0)
                second == logout(r, config, first.redis, 0)
            IN  first.res = "Ok" => second.res = "Ok" /\ second.redis = first.redis

\* C6 (amended): with revocation enabled, after a logout that returned Ok a
\* second logout with the same refresh claims returns WrongCredentials (a
\* RedisError when a call of its revocation check fails), never Ok, and leaves
\* the store as the first call left it.
C6_SecondLogoutRejected ==
    config.jwt_enable_revoked_tokens =>
        \A r \in RefreshInputs :
            LET first == logout(r, config, redis, 0)
            IN  first.res = "Ok" =>
                  /\ logout(r, config, first.redis, 0).res = "WrongCredentials"
                  /\ \A failAt \in 0..5 :
                        LET second == logout(r, config, first.redis, failAt)
                        IN  /\ second.res \in {"WrongCredentials", "RedisError"}
                            /\ second.redis = first.redis

\* a state right after a logout returned Ok, in which the same claims are
\* handed to logout again
C6_Witness ==
    /\ last = Last("logout", "Ok")
    /\ \E r \in RefreshInputs :
          /\ r.typ = RefreshToken
          /\ {r.jti, r.prf} \subseteq revokedIds
          /\ logout(r, config, redis, 0).res = "WrongCredentials"

\* C7: with revocation enabled, a request whose revocation check ends in a
\* Redis error is never admitted: the extractor returns the error.
C7_FailClosed ==
    config.jwt_enable_revoked_tokens =>
        \A token \in Presented \ {NoToken}, target \in Targets, failAt \in 0..3 :
            LET d == decode_token(token, target, config, now)
            IN  d.ok /\ is_revoked(d.claims, redis, failAt) = "Err" =>
                  decode_token_from_request_part(token, target, config, redis, now,
                                                 failAt).res = "RedisError"

\* a state in which an issued token that is admitted when Redis answers is
\* presented while the HEXISTS of its revocation check fails
C7_Witness ==
    /\ config.jwt_enable_revoked_tokens
    /\ \E token \in issued :
          /\ Admitted(token, "access", 0)
          /\ is_revoked(token.claims, redis, 3) = "Err"
          /\ ~Admitted(token, "access", 3)

\* C8: every issued refresh token is paired with exactly one issued access
\* token: paired_access_token_id is that token's id, the two ids differ, and
\* subject, roles and issued_at are the same; the next issuance call does so too.
PairedWith(a, r) ==
    /\ r.claims.prf = a.claims.jti
    /\ r.claims.jti # a.claims.jti
    /\ r.claims.sub = a.claims.sub
    /\ r.claims.roles = a.claims.roles
    /\ r.claims.iat = a.claims.iat

C8_PairedAtIssuance ==
    /\ \A r \in {t \in issued : t.shape = "refresh"} :
          /\ \E a \in {t \in issued : t.shape = "access"} : PairedWith(a, r)
          /\ Cardinality({a \in issued : a.claims.jti = r.claims.prf}) = 1
    /\ \A u \in Users :
          LET p == generate_tokens(UserRow(u), now, nextId)
          IN  /\ PairedWith(p.access_token, p.refresh_token)
              /\ p.access_token.claims.sub = u
              /\ p.access_token.claims.iat = now

\* a state right after a refresh issued the second pair
C8_Witness ==
    /\ last = Last("refresh", "Ok")
    /\ Cardinality({t \in issued : t.shape = "refresh"}) = 2
    /\ \E a, r \in issued : a.shape = "access" /\ r.shape = "refresh" /\ PairedWith(a, r)

\* C9: refresh, and logout when revocation is enabled, called with claims
\* whose typ is not RefreshToken return InvalidToken, whatever the expiry and
\* revocation status of the claims and whatever Redis does; the store is
\* unchanged and no token pair is issued.
C9_TypeConfusionRejected ==
    \A r \in RefreshInputs, failAt \in 0..5, found \in BOOLEAN :
        r.typ # RefreshToken =>
            LET f == refresh(r, config, redis, failAt, found, now, nextId)
                l == logout(r, config, redis, failAt)
            IN  /\ f.res = "InvalidToken"
                /\ f.redis = redis
                /\ f.tokens = NoTokens
                /\ config.jwt_enable_revoked_tokens => l.res = "InvalidToken"
                /\ l.redis = redis

\* a state in which claims with typ AccessToken and claims with an
\* out-of-range typ are handed to refresh, for a pair that is revoked and for
\* one that is not
C9_Witness ==
    /\ config.jwt_enable_revoked_tokens
    /\ \E r \in RefreshInputs :
          /\ r.typ = AccessToken
          /\ r.jti \in DOMAIN redis.tokens
          /\ refresh(r, config, redis, 0, TRUE, now, nextId).res = "InvalidToken"
    /\ \E r \in RefreshInputs :
          /\ r.typ > RefreshToken
          /\ r.jti \notin DOMAIN redis.tokens
          /\ ~AnyCheckMatches(r, redis)
          /\ refresh(r, config, redis, 0, TRUE, now, nextId).res = "InvalidToken"

\* C10: with revocation enabled, when refresh(r) returns a token pair, r.jti
\* and r.prf are in the denylist, and the ids of the returned pair are fresh:
\* not in the denylist and carried by no token issued before.
C10_RefreshRotates ==
    config.jwt_enable_revoked_tokens =>
        \A r \in RefreshInputs, failAt \in 0..5, found \in BOOLEAN :
            LET f == refresh(r, config, redis, failAt, found, now, nextId)
                newIds == {f.tokens.access_token.claims.jti,
                           f.tokens.refresh_token.claims.jti}
            IN  f.res = "Ok" =>
                  /\ {r.jti, r.prf} \subseteq DOMAIN f.redis.tokens
                  /\ newIds \cap DOMAIN f.redis.tokens = {}
                  /\ newIds \cap {t.claims.jti : t \in issued} = {}
                  /\ \A t \in {f.tokens.access_token, f.tokens.refresh_token} :
                        is_token_revoked(t.claims, f.redis, FALSE) = "Ok(false)"

\* a state right after a refresh rotated a pair: the old pair is in the
\* denylist and rejected, the new refresh token is admitted
C10_Witness ==
    /\ last = Last("refresh", "Ok")
    /\ config.jwt_enable_revoked_tokens
    /\ \E old, new \in {t \in issued : t.shape = "refresh"} :
          /\ {old.claims.jti, old.claims.prf} \subseteq DOMAIN redis.tokens
          /\ ~Admitted(old, "refresh", 0)
          /\ {new.claims.jti, new.claims.prf} \cap DOMAIN redis.tokens = {}
          /\ Admitted(new, "refresh", 0)

\* C11: a cleanup_expired call at time now that returns Ok(n) has removed
\* exactly the denylist entries whose recorded expiry satisfies now > expiry
\* (an entry with expiry = now is kept, the kept entries and the cutoffs are
\* untouched), n is the number of entries removed, and a second call right
\* after it, with no entry inserted in between, returns Ok(0) and removes
\* nothing.
C11_CleanupExact ==
    \A failAt \in CleanupFailures(redis, now), order \in Orders(DOMAIN redis.tokens) :
        LET c == cleanup_expired(redis, now, order, failAt)
            expired == {k \in DOMAIN redis.tokens : now > Parse(redis.tokens[k])}
        IN  c.res = "Ok" =>
              /\ DOMAIN c.redis.tokens = (DOMAIN redis.tokens) \ expired
              /\ \A k \in DOMAIN c.redis.tokens : c.redis.tokens[k] = redis.tokens[k]
              /\ c.redis.global = redis.global
              /\ c.redis.user = redis.user
              /\ c.deleted = Cardinality(expired)
              /\ \A order2 \in Orders(DOMAIN c.redis.tokens) :
                    LET second == cleanup_expired(c.redis, now, order2, 0)
                    IN  /\ second.res = "Ok"
                        /\ second.deleted = 0
                        /\ second.redis = c.redis

\* a state right after a cleanup that removed the entries of one revoked pair
\* and kept those of another, whose recorded expiry is the current second
C11_Witness ==
    /\ last = Last("cleanup", "Ok")
    /\ revokedIds \ DOMAIN redis.tokens # {}
    /\ \E k \in DOMAIN redis.tokens : Parse(redis.tokens[k]) = now

\* C12: every change of the token denylist is the insertion of a token id or
\* the deletion, by a cleanup run, of an entry whose recorded expiry is already
\* past (now > expiry); an id that stays keeps the expiry recorded for it.
C12_DenylistWriteOnce ==
    [][/\ \A k \in (DOMAIN redis.tokens) \cap (DOMAIN redis'.tokens) :
             redis'.tokens[k] = redis.tokens[k]
       /\ \A k \in (DOMAIN redis.tokens) \ (DOMAIN redis'.tokens) :
             /\ now > Parse(redis.tokens[k])
             /\ last'.op = "cleanup"]_vars

\* a state right after a logout inserted a pair into a denylist from which a
\* cleanup had deleted another pair
C12_Witness ==
    /\ last = Last("logout", "Ok")
    /\ revokedIds \ DOMAIN redis.tokens # {}
    /\ \E r \in RefreshInputs :
          /\ {r.jti, r.prf} \subseteq DOMAIN redis.tokens
          /\ Parse(redis.tokens[r.jti]) = r.exp

\* C13: with jwt_enable_revoked_tokens false, logout returns
\* RevokedTokensInactive for every refresh claims input, whatever its token
\* type and revocation status and whatever Redis does, and leaves the
\* revocation store unchanged.
C13_LogoutInactive ==
    ~config.jwt_enable_revoked_tokens =>
        \A r \in RefreshInputs, failAt \in 0..5 :
            LET l == logout(r, config, redis, failAt)
            IN  /\ l.res = "RevokedTokensInactive"
                /\ l.redis = redis

\* a state with revocation disabled in which logout is handed claims whose typ
\* is not RefreshToken and claims of a subject whose cutoff matches them
C13_Witness ==
    /\ ~config.jwt_enable_revoked_tokens
    /\ \E r \in RefreshInputs :
          /\ r.typ # RefreshToken
          /\ logout(r, config, redis, 0).res = "RevokedTokensInactive"
    /\ \E r \in RefreshInputs :
          /\ r.typ = RefreshToken
          /\ AnyCheckMatches(r, redis)
          /\ logout(r, config, redis, 0).res = "RevokedTokensInactive"

\* C14: a cleanup request whose claims lack the admin role fails with
\* Forbidden; with the admin role and revocation disabled it fails with
\* RevokedTokensInactive; in both cases the store is unchanged; an admin
\* request with revocation enabled gets what cleanup_expired does: its count,
\* or its Redis error.
C14_CleanupGated ==
    \A claims \in AccessInputs, failAt \in CleanupFailures(redis, now) :
        \A order \in Orders(DOMAIN redis.tokens) :
            LET c == cleanup_handler(claims, config, redis, now, order, failAt)
                e == cleanup_expired(redis, now, order, failAt)
                admin == contains_role_admin(claims.roles)
            IN  /\ ~admin => c.res = "Forbidden" /\ c.redis = redis
                /\ admin /\ ~config.jwt_enable_revoked_tokens =>
                      c.res = "RevokedTokensInactive" /\ c.redis = redis
                /\ admin /\ config.jwt_enable_revoked_tokens =>
                      /\ c.redis = e.redis
                      /\ c.res = (IF e.res = "Ok" THEN "Ok" ELSE "RedisError")
                      /\ c.res = "Ok" => c.deleted = e.deleted

\* a state with revocation enabled and expired denylist entries in which the
\* cleanup request carries claims without the admin role
C14_Witness ==
    /\ config.jwt_enable_revoked_tokens
    /\ \E k \in DOMAIN redis.tokens : now > Parse(redis.tokens[k])
    /\ \E claims \in AccessInputs, order \in Orders(DOMAIN redis.tokens) :
          /\ ~contains_role_admin(claims.roles)
          /\ cleanup_expired(redis, now, order, 0).deleted > 0
          /\ cleanup_handler(claims, config, redis, now, order, 0).res = "Forbidden"

\* C15: the extractor answers WrongCredentials, and never InvalidToken or
\* MissingCredentials, to a request without a bearer token, to a token that
\* fails decoding (wrong signature, payload of the wrong shape, expired) and to
\* a token that the revocation check finds revoked.
C15_RejectionsUniform ==
    \A token \in Presented, target \in Targets, failAt \in 0..3 :
        LET e == decode_token_from_request_part(token, target, config, redis, now, failAt)
            d == decode_token(token, target, config, now)
        IN  /\ e.res \notin {"InvalidToken", "MissingCredentials"}
            /\ token = NoToken => e.res = "WrongCredentials"
            /\ token.key # ServerSecret => e.res = "WrongCredentials"
            /\ ~Deserializes(token, target) => e.res = "WrongCredentials"
            /\ now > token.claims.exp + config.jwt_validation_leeway_seconds =>
                  e.res = "WrongCredentials"
            /\ /\ config.jwt_enable_revoked_tokens
               /\ d.ok
               /\ is_revoked(d.claims, redis, failAt) = "Ok(true)"
               => e.res = "WrongCredentials"

\* a state with revocation enabled in which one issued token is expired and
\* another, unexpired, is in the denylist: both get WrongCredentials, as does
\* a request without a token
C15_Witness ==
    /\ config.jwt_enable_revoked_tokens
    /\ \E token \in issued :
          /\ ~NotExpired(token.claims, config.jwt_validation_leeway_seconds, now)
          /\ ~DenylistMatches(token.claims, redis)
          /\ ~Admitted(token, "access", 0)
    /\ \E token \in issued :
          /\ NotExpired(token.claims, config.jwt_validation_leeway_seconds, now)
          /\ DenylistMatches(token.claims, redis)
          /\ decode_token_from_request_part(token, "access", config, redis, now, 0).res
                = "WrongCredentials"
    /\ decode_token_from_request_part(NoToken, "access", config, redis, now, 0).res
          = "WrongCredentials"

\* C16: with jwt_enable_revoked_tokens false, extract, logout, refresh and
\* cleanup neither read nor write the store (login never does): the store is
\* unchanged, the result is the same whatever the store holds and whichever
\* Redis call would fail, and a token whose id is in the denylist or whose
\* issued_at is at or before a cutoff is admitted when it decodes.
C16_DisabledNoBackend ==
    ~config.jwt_enable_revoked_tokens =>
        /\ \A token \in Presented \ {NoToken}, target \in Targets, failAt \in 0..3 :
              LET denied == [redis EXCEPT
                                !.tokens = hset(redis.tokens, token.claims.jti,
                                                Format(token.claims.exp)),
                                !.global = Some(Format(now))]
                  e == decode_token_from_request_part(token, target, config, denied,
                                                      now, failAt)
              IN  /\ AnyCheckMatches(token.claims, denied)
                  /\ e = decode_token_from_request_part(token, target, config,
                                                        EmptyRedis, now, 0)
                  /\ e = decode_token_from_request_part(token, target, config,
                                                        redis, now, failAt)
                  /\ decode_token(token, target, config, now).ok => e.res = "Ok"
        /\ \A r \in RefreshInputs, failAt \in 0..5, found \in BOOLEAN :
              LET l == logout(r, config, redis, failAt)
                  f == refresh(r, config, redis, failAt, found, now, nextId)
              IN  /\ l.redis = redis
                  /\ l.res = logout(r, config, EmptyRedis, 0).res
                  /\ f.redis = redis
                  /\ f.res \in {"Ok", "InvalidToken", "SQLxError"}
                  /\ f.res = refresh(r, config, EmptyRedis, 0, found, now, nextId).res
        /\ \A claims \in AccessInputs, failAt \in CleanupFailures(redis, now) :
              \A order \in Orders(DOMAIN redis.tokens) :
                  LET c == cleanup_handler(claims, config, redis, now, order, failAt)
                  IN  /\ c.redis = redis
                      /\ c.res \in {"Forbidden", "RevokedTokensInactive"}

\* a state with revocation disabled in which an issued token, issued at or
\* before a cutoff held by the store, is admitted while every Redis call of
\* the revocation check would fail
C16_Witness ==
    /\ ~config.jwt_enable_revoked_tokens
    /\ \E token \in issued :
          /\ GlobalCutoffMatches(token.claims, redis) \/ UserCutoffMatches(token.claims, redis)
          /\ \A failAt \in 0..3 : Admitted(token, "access", failAt)

\* C17: a token signed with a secret that is not the configured one fails
\* decoding, whatever claims type is extracted and whatever its subject,
\* roles and expiry, and the extractor answers WrongCredentials to it.
C17_OtherSecretRejected ==
    \A token \in Presented \ {NoToken}, target \in Targets, failAt \in 0..3 :
        \A exp \in Times \cup {StartTime + MaxTicks + RefreshTtl + MaxLeeway + 1},
           u \in Users :
            LET forged == encode(token.shape,
                                 [token.claims EXCEPT !.exp = exp, !.sub = u,
                                                      !.roles = USER_ROLE_ADMIN],
                                 OtherSecret)
            IN  /\ ~decode_token(forged, target, config, now).ok
                /\ decode_token_from_request_part(forged, target, config, redis, now,
                                                  failAt).res = "WrongCredentials"
                /\ token.key # ServerSecret =>
                      /\ ~decode_token(token, target, config, now).ok
                      /\ ~Admitted(token, target, failAt)

\* a state in which an issued token is admitted and the token with the same
\* claims signed with another secret is rejected
C17_Witness ==
    \E token \in issued :
        /\ Admitted(token, "access", 0)
        /\ encode(token.shape, token.claims, OtherSecret) \in Presented
        /\ decode_token_from_request_part(encode(token.shape, token.claims, OtherSecret),
                                          "access", config, redis, now, 0).res
              = "WrongCredentials"

\* C18: for every leeway, a correctly signed token decodes at
\* now = expires_at + leeway and fails to decode at now = expires_at + leeway + 1.
C18_ExpiryBoundary ==
    \A token \in issued, leeway \in 0..MaxLeeway :
        LET cfg == [config EXCEPT !.jwt_validation_leeway_seconds = leeway]
            target == token.shape
            exp == token.claims.exp
        IN  /\ decode_token(token, target, cfg, exp + leeway).ok
            /\ ~decode_token(token, target, cfg, exp + leeway + 1).ok
            /\ now = exp + config.jwt_validation_leeway_seconds =>
                  decode_token(token, target, config, now).ok
            /\ now = exp + config.jwt_validation_leeway_seconds + 1 =>
                  ~decode_token(token, target, config, now).ok

\* a state with a positive leeway in which the clock shows expires_at + leeway
\* for one issued token, which decodes, and expires_at + leeway + 1 for
\* another, which does not
C18_Witness ==
    /\ config.jwt_validation_leeway_seconds > 0
    /\ \E token \in issued :
          /\ now = token.claims.exp + config.jwt_validation_leeway_seconds
          /\ decode_token(token, token.shape, config, now).ok
    /\ \E token \in issued :
          /\ now = token.claims.exp + config.jwt_validation_leeway_seconds + 1
          /\ ~decode_token(token, token.shape, config, now).ok

\* some comma-separated entry of s is the role name surrounded by whitespace
\* only: the name stands at p, whitespace reaches from it to the start of s or
\* the comma on its left, and to the end of s or the comma on its right
HasAdminEntry(s) ==
    \E p \in 1..(Len(s) - Len(USER_ROLE_ADMIN) + 1) :
        LET q == p + Len(USER_ROLE_ADMIN) - 1
        IN  /\ SubSeq(s, p, q) = USER_ROLE_ADMIN
            /\ \E a \in 1..p :
                  /\ a = 1 \/ s[a - 1] = ","
                  /\ \A k \in a..(p - 1) : IsSpace(s[k])
            /\ \E b \in q..Len(s) :
                  /\ b = Len(s) \/ s[b + 1] = ","
                  /\ \A k \in (q + 1)..b : IsSpace(s[k])

\* C19: for every roles string, contains_role_admin is true iff some
\* comma-separated entry, trimmed of the whitespace around it, is exactly
\* "admin"; the empty string gives false; is_role_admin returns Forbidden
\* exactly when it is false; "admin" passes and "guest,customer" is Forbidden.
C19_AdminRoleCheck ==
    /\ \A t \in issued :
          LET roles == t.claims.roles
          IN  /\ contains_role_admin(roles) <=> HasAdminEntry(roles)
              /\ roles = <<>> => ~contains_role_admin(roles)
              /\ is_role_admin(roles) = "Forbidden" <=> ~HasAdminEntry(roles)
              /\ is_role_admin(roles) = "Ok" <=> HasAdminEntry(roles)
    /\ last.op = "validate_role_admin" =>
          \A t \in issued : last.res = "Ok" <=> HasAdminEntry(t.claims.roles)
    /\ is_role_admin(UserRoles("u1")) = "Ok"
    /\ is_role_admin(UserRoles("u2")) = "Forbidden"

\* a state right after validate_role_admin accepted claims whose roles string
\* has two entries, the second of which is the role name between spaces
C19_Witness ==
    /\ last = Last("validate_role_admin", "Ok")
    /\ \E t \in issued, n \in RoleNames \ {USER_ROLE_ADMIN} :
          t.claims.roles = n \o <<",", " ">> \o USER_ROLE_ADMIN \o <<" ">>

PairExpiry(j) ==
    LET r == CHOOSE x \in issued :
                 x.shape = "refresh" /\ j \in {x.claims.jti, x.claims.prf}
    IN  r.claims.exp

C24_PairAtomic ==
    \A r \in {t \in issued : t.shape = "refresh"} :
        r.claims.jti \in DOMAIN redis.tokens <=> r.claims.prf \in DOMAIN redis.tokens

\* the three checks evaluated in a given order, stopping at the first match
RECURSIVE ShortCircuit(_, _, _)
ShortCircuit(order, c, r) ==
    IF order = <<>> THEN "Ok(false)"
    ELSE LET one == IF Head(order) = "global" THEN is_global_revoked(c, r, FALSE)
                    ELSE IF Head(order) = "user" THEN is_user_revoked(c, r, FALSE)
                    ELSE is_token_revoked(c, r, FALSE)
         IN  IF one # "Ok(false)" THEN one ELSE ShortCircuit(Tail(order), c, r)

\* C25: when no Redis call fails, is_revoked(claims) is the OR of the three
\* checks (global cutoff >= iat, cutoff of claims.sub >= iat, claims.jti in the
\* denylist); it is what evaluating global, user, token in this order with a
\* stop at the first match gives, and what any other order gives.
C25_IsRevokedIsOr ==
    \A c \in ProbeClaims(KnownIds \cup {NoId}) :
        /\ is_revoked(c, redis, 0) =
              (IF AnyCheckMatches(c, redis) THEN "Ok(true)" ELSE "Ok(false)")
        /\ is_revoked(c, redis, 0) = ShortCircuit(<<"global", "user", "token">>, c, redis)
        /\ \A order \in Orders({"global", "user", "token"}) :
              ShortCircuit(order, c, redis) = is_revoked(c, redis, 0)

\* a state whose store holds a cutoff and a denylist in which, for the claims
\* of one issued token, only the denylist matches and, for those of another,
\* no check does
C25_Witness ==
    /\ Cutoffs(redis) > 0
    /\ \E t \in issued :
          /\ ~GlobalCutoffMatches(t.claims, redis)
          /\ ~UserCutoffMatches(t.claims, redis)
          /\ DenylistMatches(t.claims, redis)
          /\ is_revoked(t.claims, redis, 0) = "Ok(true)"
    /\ \E t \in issued :
          /\ ~AnyCheckMatches(t.claims, redis)
          /\ is_revoked(t.claims, redis, 0) = "Ok(false)"

\* C26 (as stated): a request is admitted with AccessClaims only if the
\* presented token was issued as an access token (typ = AccessToken).
C26_AccessClaimsFromAccessToken ==
    \A token \in Presented \ {NoToken}, failAt \in 0..3 :
        Admitted(token, "access", failAt) => token.claims.typ = AccessToken

\* C28 (as stated): a pair issued after a revoke_global or revoke_user call
\* has completed is not revoked by that call's cutoff, also when it is issued
\* in the second of the revoke.
C28_SameSecondNotRevoked ==
    \A u \in Users :
        LET g == revoke_global(redis, now, FALSE)
            v == revoke_user_tokens(u, redis, now, FALSE)
            p == generate_tokens(UserRow(u), now, nextId)
        IN  /\ is_global_revoked(p.access_token.claims, g.redis, FALSE) = "Ok(false)"
            /\ is_user_revoked(p.access_token.claims, v.redis, FALSE) = "Ok(false)"

\* C28 (amended): a pair issued after a revoke_global or revoke_user call has
\* completed is not revoked by that call's cutoff when it is issued in a later
\* second; a pair issued in the second of the revoke has iat = cutoff, is
\* revoked by it, and is rejected by the extractor when revocation is enabled.
C28_LaterSecondNotRevoked ==
    \A u \in Users, t \in now..(StartTime + MaxTicks) :
        LET g == revoke_global(redis, now, FALSE)
            v == revoke_user_tokens(u, redis, now, FALSE)
            p == generate_tokens(UserRow(u), t, nextId)
        IN  \A token \in {p.access_token, p.refresh_token} :
                /\ is_global_revoked(token.claims, g.redis, FALSE) =
                      (IF t = now THEN "Ok(true)" ELSE "Ok(false)")
                /\ is_user_revoked(token.claims, v.redis, FALSE) =
                      (IF t = now THEN "Ok(true)" ELSE "Ok(false)")
                /\ t = now /\ config.jwt_enable_revoked_tokens =>
                      \A r \in {g.redis, v.redis} :
                          decode_token_from_request_part(token, token.shape, config, r,
                                                         t, 0).res = "WrongCredentials"

\* a state right after a login in the second of a revoke_global: the pair is
\* unexpired and rejected; the cutoff is the only check that matches it
C28_Witness ==
    /\ last = Last("login", "Ok")
    /\ config.jwt_enable_revoked_tokens
    /\ redis.global.some
    /\ Parse(redis.global.s) = now
    /\ \E token \in issued :
          /\ token.claims.iat = now
          /\ ~DenylistMatches(token.claims, redis)
          /\ ~UserCutoffMatches(token.claims, redis)
          /\ ~Admitted(token, "access", 0)

\* C29 (as stated): whenever refresh returns an error, the store is unchanged
\* and the presented pair has not been added to the denylist.
C29_RefreshAllOrNothing ==
    \A r \in RefreshInputs, failAt \in 0..5, found \in BOOLEAN :
        LET f == refresh(r, config, redis, failAt, found, now, nextId)
        IN  f.res # "Ok" => f.redis = redis

\* C29 (amended): refresh returns no token pair with an error.  The store is
\* unchanged when the error is InvalidToken, WrongCredentials (the presented
\* token is revoked) or a Redis error of the revocation check or of the first
\* HSET.  With revocation enabled, when the second HSET fails the refresh id
\* alone has been added to the denylist, and when the user lookup fails both
\* ids of the presented pair have been added and stay there.
C29_RefreshErrorEffects ==
    \A r \in RefreshInputs, failAt \in 0..5, found \in BOOLEAN :
        LET f == refresh(r, config, redis, failAt, found, now, nextId)
            v == Format(r.exp)
            one == [redis EXCEPT !.tokens = hset(redis.tokens, r.jti, v)]
            both == [one EXCEPT !.tokens = hset(one.tokens, r.prf, v)]
        IN  /\ f.res # "Ok" => f.tokens = NoTokens
            /\ f.res \in {"InvalidToken", "WrongCredentials"} => f.redis = redis
            /\ f.res = "RedisError" =>
                  f.redis = (IF failAt = 5 THEN one ELSE redis)
            /\ f.res = "SQLxError" =>
                  f.redis = (IF config.jwt_enable_revoked_tokens THEN both ELSE redis)
            /\ f.res = "Ok" /\ config.jwt_enable_revoked_tokens => f.redis = both
            /\ ~found /\ r.typ = RefreshToken /\ failAt = 0 /\ ~AnyCheckMatches(r, redis) =>
                  f.res = "SQLxError"

\* a state right after a refresh whose user lookup failed: no pair was issued
\* and both ids of the presented pair are in the denylist
C29_Witness ==
    /\ last = Last("refresh", "SQLxError")
    /\ Cardinality(issued) = 2
    /\ \E r \in RefreshInputs :
          /\ {r.jti, r.prf} \subseteq DOMAIN redis.tokens
          /\ {r.jti, r.prf} \subseteq revokedIds

\* C23 (as stated): when an authentication operation fails with a Redis or a
\* user-lookup error, no field of the error response handed to the client
\* holds the text of the backend error.
C23_NoBackendErrorText ==
    \A text \in BackendErrorTexts :
        /\ \A token \in Presented, target \in Targets, failAt \in 0..3 :
              LET e == decode_token_from_request_part(token, target, config, redis,
                                                      now, failAt)
                  resp == APIError_from_AuthError(e.res, text)
              IN  e.res = "RedisError" =>
                      {resp.code, resp.kind, resp.message} \cap BackendErrorTexts = {}
        /\ \A r \in RefreshInputs, failAt \in 0..5 :
              LET l == logout(r, config, redis, failAt)
                  resp == APIError_from_AuthError(l.res, text)
              IN  l.res = "RedisError" =>
                      {resp.code, resp.kind, resp.message} \cap BackendErrorTexts = {}

\* C22 (as stated): a stored cutoff or expiry that does not parse as a
\* timestamp is returned as an error by the operation that reads it:
\* is_revoked does not panic on it and cleanup_expired does not pass over it.
C22_StoreErrorsSurfaced ==
    /\ \A t \in issued, failAt \in 0..3 :
          LET rv == is_revoked(t.claims, redis, failAt)
          IN  /\ rv \in {"Ok(true)", "Ok(false)", "Err"}
              /\ redis.global.some /\ Parse(redis.global.s) = ParseError => rv = "Err"
    /\ \A order \in Orders(DOMAIN redis.tokens) :
          (\E k \in DOMAIN redis.tokens : Parse(redis.tokens[k]) = ParseError) =>
              cleanup_expired(redis, now, order, 0).res = "Err"

\* C27 (implicit): a refresh token is redeemed at most once: of the refresh
\* calls that present the same refresh token, concurrent ones included, at
\* most one returns a new pair.
C27_RedeemedAtMostOnce ==
    config.jwt_enable_revoked_tokens =>
        \A j \in DOMAIN redeemed : redeemed[j] <= 1

\* C30: the connection mutex excludes: at most one call holds a guard, a call
\* holds it only inside a section and never while it waits for it again or
\* after it returned; and with fair scheduling every call that started
\* returns, so every waiter gets the lock.
C30_LockExclusiveAndLive ==
    /\ [](Cardinality(holders) <= 1)
    /\ [](\A p \in Procs : p \in holders <=> pc[p].at \in Sections)
    /\ \A p \in Procs : (pc[p].at \in LockPoints) ~> (p \in holders)
    /\ \A p \in Procs : (pc[p] # Idle) ~> (pc[p] = Idle)

\* one call holds the guard inside revoke_refresh_token while the other
\* waits for the mutex
C30_Witness ==
    \E p, q \in Procs :
        /\ p \in holders /\ pc[p].at = "revoke_refresh_token"
        /\ q # p /\ pc[q].at \in LockPoints

====
